---- MODULE Spec2Model ----
(***************************************************************************)
(* link-dl: extraction of file links from one page and their concurrent    *)
(* download (main.go).  Strings are sequences of one-character strings.    *)
(***************************************************************************)
EXTENDS Integers, Sequences, FiniteSets, TLC

(* ------------------------------ bounds -------------------------------- *)
\* --parallel ranges over -1 .. MaxParallel
MaxParallel == 2

(* --------------------------- string helpers --------------------------- *)
UpperChars == <<"A","B","C","D","E","F","G","H","I","J","K","L","M",
                "N","O","P","Q","R","S","T","U","V","W","X","Y","Z">>
LowerChars == <<"a","b","c","d","e","f","g","h","i","j","k","l","m",
                "n","o","p","q","r","s","t","u","v","w","x","y","z">>
Digits == <<"0","1","2","3","4","5","6","7","8","9">>

\* strings.ToLower on one character
LowerChar(c) ==
  IF \E i \in 1..26 : UpperChars[i] = c
    THEN LowerChars[CHOOSE i \in 1..26 : UpperChars[i] = c]
    ELSE c

\* strings.ToLower
ToLower(s) == [i \in 1..Len(s) |-> LowerChar(s[i])]

\* strings.HasPrefix
HasPrefix(s, p) == Len(p) <= Len(s) /\ SubSeq(s, 1, Len(p)) = p

\* strings.HasSuffix
HasSuffix(s, p) == Len(p) <= Len(s) /\ SubSeq(s, Len(s) - Len(p) + 1, Len(s)) = p

\* strings.TrimSuffix
TrimSuffix(s, p) == IF HasSuffix(s, p) THEN SubSeq(s, 1, Len(s) - Len(p)) ELSE s

\* strings.TrimPrefix
TrimPrefix(s, p) == IF HasPrefix(s, p) THEN SubSeq(s, Len(p) + 1, Len(s)) ELSE s

\* the positions of s that hold a character outside cut
KeepPos(s, cut) == {i \in 1..Len(s) : s[i] \notin cut}

\* strings.Trim(s, cutset)
Trim(s, cut) ==
  IF KeepPos(s, cut) = {} THEN <<>>
  ELSE SubSeq(s, CHOOSE i \in KeepPos(s, cut) : \A j \in KeepPos(s, cut) : i <= j,
                 CHOOSE i \in KeepPos(s, cut) : \A j \in KeepPos(s, cut) : i >= j)

\* strings.TrimSpace
TrimSpace(s) == Trim(s, {" ", "\t", "\n"})

\* the last position of s that holds c, 0 when there is none
LastIndex(s, c) ==
  IF \E i \in 1..Len(s) : s[i] = c
    THEN CHOOSE i \in 1..Len(s) : s[i] = c /\ \A j \in (i+1)..Len(s) : s[j] # c
    ELSE 0

\* the first position of s at or after from that holds a character of cs, 0 when none
IndexAny(s, cs, from) ==
  IF \E i \in from..Len(s) : s[i] \in cs
    THEN CHOOSE i \in from..Len(s) : s[i] \in cs /\ \A j \in from..(i-1) : s[j] \notin cs
    ELSE 0

\* filepath.Ext: the suffix from the final dot of the final path element
Ext(path) ==
  IF LastIndex(path, ".") > LastIndex(path, "/")
    THEN SubSeq(path, LastIndex(path, "."), Len(path))
    ELSE <<>>

\* filepath.Base on a path without trailing slashes
Base(path) ==
  IF path = <<>> THEN <<".">>
  ELSE IF Trim(path, {"/"}) = <<>> THEN <<"/">>
  ELSE LET p == SubSeq(path, 1, CHOOSE i \in 1..Len(path) :
                        path[i] # "/" /\ \A j \in (i+1)..Len(path) : path[j] = "/")
       IN SubSeq(p, LastIndex(p, "/") + 1, Len(p))

RECURSIVE Itoa(_)
\* the %d verb of fmt.Sprintf on a natural number
Itoa(n) == IF n < 10 THEN <<Digits[n + 1]>> ELSE Itoa(n \div 10) \o <<Digits[(n % 10) + 1]>>

(* ------------------------ regular expressions ------------------------- *)
\* The subset of RE2 syntax the model's patterns use: literal characters, the
\* escape \c, the wildcard . and the postfix star.  A token is one atom of the
\* pattern with its star flag.
RECURSIVE RegexpTokens(_)
RegexpTokens(p) ==
  IF p = <<>> THEN <<>>
  ELSE LET esc  == Head(p) = "\\"
           n    == IF esc THEN 2 ELSE 1
           atom == IF esc THEN [any |-> FALSE, ch |-> p[2]]
                   ELSE [any |-> Head(p) = ".", ch |-> Head(p)]
           star == Len(p) > n /\ p[n + 1] = "*"
       IN <<[any |-> atom.any, ch |-> atom.ch, star |-> star]>>
            \o RegexpTokens(SubSeq(p, n + (IF star THEN 2 ELSE 1), Len(p)))

RECURSIVE ParenDepthOK(_, _)
\* whether the parentheses of p are balanced, read from depth d
ParenDepthOK(p, d) ==
  IF p = <<>> THEN d = 0
  ELSE IF Head(p) = "\\" THEN ParenDepthOK(SubSeq(p, 3, Len(p)), d)
  ELSE IF Head(p) = "(" THEN ParenDepthOK(Tail(p), d + 1)
  ELSE IF Head(p) = ")" THEN d > 0 /\ ParenDepthOK(Tail(p), d - 1)
  ELSE ParenDepthOK(Tail(p), d)

RECURSIVE StarsOK(_, _)
\* whether every star of p follows an atom (prev: the previous item can be starred)
StarsOK(p, prev) ==
  IF p = <<>> THEN TRUE
  ELSE IF Head(p) = "\\" THEN Len(p) >= 2 /\ StarsOK(SubSeq(p, 3, Len(p)), TRUE)
  ELSE IF Head(p) = "*" THEN prev /\ StarsOK(Tail(p), FALSE)
  ELSE StarsOK(Tail(p), Head(p) # "(")

\* regexp.Compile returns no error
RegexpCompileOK(p) == ParenDepthOK(p, 0) /\ StarsOK(p, FALSE)

\* one atom against one character (. does not match a newline)
AtomMatches(t, c) == IF t.any THEN c # "\n" ELSE t.ch = c

RECURSIVE MatchHere(_, _, _, _)
\* tokens k.. of toks match a prefix of s that starts at position i
MatchHere(toks, k, s, i) ==
  IF k > Len(toks) THEN TRUE
  ELSE IF toks[k].star
    THEN \E n \in 0..(Len(s) - i + 1) :
           /\ \A j \in i..(i + n - 1) : AtomMatches(toks[k], s[j])
           /\ MatchHere(toks, k + 1, s, i + n)
  ELSE /\ i <= Len(s)
       /\ AtomMatches(toks[k], s[i])
       /\ MatchHere(toks, k + 1, s, i + 1)

\* (*Regexp).MatchString: the pattern matches somewhere in s
MatchString(p, s) == \E i \in 1..(Len(s) + 1) : MatchHere(RegexpTokens(p), 1, s, i)

(* -------------------------------- URLs -------------------------------- *)
HexChars == {"0","1","2","3","4","5","6","7","8","9","a","b","c","d","e","f",
             "A","B","C","D","E","F"}
Letters == {UpperChars[i] : i \in 1..26} \cup {LowerChars[i] : i \in 1..26}
ControlChars == {"\t", "\n", "\r", "\f"}

\* the length of the scheme of s (url.getScheme), 0 when s has none
SchemeLen(s) ==
  LET i == IndexAny(s, {":"}, 1)
  IN IF i > 1 /\ \A j \in 1..(i - 1) : s[j] \in Letters THEN i - 1 ELSE 0

\* url.Parse returns no error: a scheme is not empty, no control character, and
\* every % starts a two-digit hexadecimal escape
UrlParseOK(s) ==
  /\ ~HasPrefix(s, <<":">>)
  /\ \A i \in 1..Len(s) : s[i] \notin ControlChars
  /\ \A i \in 1..Len(s) :
       s[i] = "%" => (i + 2 <= Len(s) /\ s[i + 1] \in HexChars /\ s[i + 2] \in HexChars)

\* where the path of an absolute URL scheme://host/path starts (Len+1: no path)
PathStart(u) ==
  LET i == IndexAny(u, {"/", "?", "#"}, SchemeLen(u) + 4)
  IN IF i = 0 THEN Len(u) + 1 ELSE i

\* (*URL).Path of an absolute URL: after the host, before the query and the fragment
\* (the model's URLs hold no percent escapes, so nothing is decoded)
UrlPath(u) ==
  LET e == IndexAny(u, {"?", "#"}, PathStart(u))
  IN SubSeq(u, PathStart(u), IF e = 0 THEN Len(u) ELSE e - 1)

\* scheme://host of an absolute URL
Origin(u) == SubSeq(u, 1, PathStart(u) - 1)

\* scheme://host/dir/ of an absolute URL: its path up to the last slash
BaseDir(u) ==
  LET p == UrlPath(u)
  IN Origin(u) \o (IF LastIndex(p, "/") = 0 THEN <<"/">> ELSE SubSeq(p, 1, LastIndex(p, "/")))

\* (*URL).Parse(href).String() for a base that parsed: RFC 3986 resolution of a
\* reference with a scheme, with an absolute path, or with a relative path (a
\* leading ./ is removed; the model's references hold no .. segment)
ResolveRef(base, href) ==
  IF SchemeLen(href) > 0
    THEN ToLower(SubSeq(href, 1, SchemeLen(href))) \o SubSeq(href, SchemeLen(href) + 1, Len(href))
  ELSE IF HasPrefix(href, <<"/">>) THEN Origin(base) \o href
  ELSE BaseDir(base) \o TrimPrefix(href, <<".", "/">>)

(* ------------------------- sanitizeFilename --------------------------- *)
\* the byte limit of a sanitized name
NameLimit == 200

\* the class [<>:"/\\|?*\x00-\x1f]
InvalidChars == {"<", ">", ":", "\"", "/", "\\", "|", "?", "*"} \cup ControlChars

\* invalid.ReplaceAllString(name, "_")
ReplaceInvalid(name) == [i \in 1..Len(name) |-> IF name[i] \in InvalidChars THEN "_" ELSE name[i]]

\* the class [\s_]
IsBlank(c) == c = "_" \/ c = " " \/ c \in ControlChars

RECURSIVE CollapseBlanks(_)
\* regexp [\s_]+ replaced by one underscore, computed on the two halves of s: a run
\* of blanks that spans the middle gives one underscore, not two
CollapseBlanks(s) ==
  IF s = <<>> THEN <<>>
  ELSE IF Len(s) = 1 THEN <<IF IsBlank(s[1]) THEN "_" ELSE s[1]>>
  ELSE LET h == Len(s) \div 2
       IN IF IsBlank(s[h]) /\ IsBlank(s[h + 1])
            THEN CollapseBlanks(SubSeq(s, 1, h)) \o Tail(CollapseBlanks(SubSeq(s, h + 1, Len(s))))
            ELSE CollapseBlanks(SubSeq(s, 1, h)) \o CollapseBlanks(SubSeq(s, h + 1, Len(s)))

\* the name before the length limit is applied
SanitizeTrimmed(name) == Trim(CollapseBlanks(ReplaceInvalid(name)), {" ", ".", "_"})

\* name[:200-len(ext)] has a negative bound: the slice expression panics
SanitizePanics(name) ==
  LET n == SanitizeTrimmed(name)
  IN Len(n) > NameLimit /\ Len(Ext(n)) > NameLimit

\* sanitizeFilename without the length limit
sanitizeFilenameUncut(name) ==
  IF SanitizeTrimmed(name) = <<>> THEN <<"u","n","n","a","m","e","d">> ELSE SanitizeTrimmed(name)

\* sanitizeFilename, where it returns
sanitizeFilename(name) ==
  LET n   == SanitizeTrimmed(name)
      cut == IF Len(n) > NameLimit
               THEN SubSeq(n, 1, NameLimit - Len(Ext(n))) \o Ext(n)
               ELSE n
  IN IF cut = <<>> THEN <<"u","n","n","a","m","e","d">> ELSE cut

\* one call of sanitizeFilename: the argument, whether the call returned, and the
\* string it returned
SanitizeCall(name) ==
  [arg |-> name,
   ok  |-> ~SanitizePanics(name),
   ret |-> IF SanitizePanics(name) THEN <<>> ELSE sanitizeFilename(name)]

(* ----------------------------- parseFlags ----------------------------- *)
RECURSIVE Split(_, _)
\* strings.Split(s, sep) for a one-character separator
Split(s, sep) ==
  LET i == IndexAny(s, {sep}, 1)
  IN IF i = 0 THEN <<s>> ELSE <<SubSeq(s, 1, i - 1)>> \o Split(SubSeq(s, i + 1, Len(s)), sep)

RECURSIVE NormalizeExts(_)
\* the loop over the items of --ext: trimmed, one leading dot removed, empty
\* items dropped, the rest lower-cased behind a dot
NormalizeExts(items) ==
  IF items = <<>> THEN <<>>
  ELSE LET e == TrimPrefix(TrimSpace(Head(items)), <<".">>)
       IN (IF e # <<>> THEN <<(<<".">> \o ToLower(e))>> ELSE <<>>) \o NormalizeExts(Tail(items))

\* parseFlags: the Config of a command line (OutDir and UserAgent play no part)
parseFlags(args) ==
  [URL      |-> args.url,
   Parallel |-> args.parallel,
   Exts     |-> IF ~args.all /\ args.ext # <<>> THEN NormalizeExts(Split(args.ext, ",")) ELSE <<>>,
   All      |-> args.all,
   Include  |-> args.include,
   ListOnly |-> args.list]

(* ---------------------------- extractLinks ---------------------------- *)
KnownExts ==
  { <<"p","d","f">>, <<"d","o","c">>, <<"d","o","c","x">>, <<"x","l","s">>,
    <<"x","l","s","x">>, <<"x","l","s","m">>, <<"p","p","t">>, <<"p","p","t","x">>,
    <<"c","s","v">>, <<"t","x","t">>, <<"z","i","p">>, <<"r","a","r">>, <<"7","z">>,
    <<"t","a","r">>, <<"g","z">>, <<"j","p","g">>, <<"j","p","e","g">>, <<"p","n","g">>,
    <<"g","i","f">>, <<"s","v","g">>, <<"m","p","3">>, <<"m","p","4">>, <<"w","a","v">>,
    <<"a","v","i">>, <<"m","o","v">> }

\* the pattern without its flag (?i)
FileExtMatchCaseSensitive(path) == \E e \in KnownExts : HasSuffix(path, <<".">> \o e)

\* fileExtPattern.MatchString(path): (?i)\.(pdf|docx?|...)$
FileExtMatch(path) == \E e \in KnownExts : HasSuffix(ToLower(path), <<".">> \o e)

JavascriptPrefix == <<"j","a","v","a","s","c","r","i","p","t",":">>

\* the href is skipped before it is resolved
SkippedHref(href) ==
  href = <<>> \/ HasPrefix(href, <<"#">>) \/ HasPrefix(href, JavascriptPrefix)

\* the extension test with a list entry accepted as a prefix of the extension
ExtAcceptedPrefix(config, fullURL) ==
  IF config.All
    THEN FileExtMatch(UrlPath(fullURL))
    ELSE \E k \in 1..Len(config.Exts) : HasPrefix(ToLower(Ext(UrlPath(fullURL))), config.Exts[k])

\* the extension test of the active mode on a resolved URL
ExtAccepted(config, fullURL) ==
  IF config.All
    THEN FileExtMatch(UrlPath(fullURL))
    ELSE \E k \in 1..Len(config.Exts) : ToLower(Ext(UrlPath(fullURL))) = config.Exts[k]

\* the include pattern never consulted
IncludeAcceptedAlways(config, fullURL) == TRUE

\* the include pattern test; no pattern admits everything
IncludeAccepted(config, fullURL) ==
  config.Include = <<>> \/ MatchString(config.Include, fullURL)

\* the base name of an anchor before it is sanitized
RawName(a, fullURL) ==
  IF TrimSpace(a.text) # <<>> THEN TrimSpace(a.text) ELSE Base(UrlPath(fullURL))

\* the file name of an anchor with the extension appended in every case
LinkNameAlwaysExt(a, fullURL) ==
  sanitizeFilename(RawName(a, fullURL)) \o ToLower(Ext(UrlPath(fullURL)))

\* the file name of an anchor: sanitized, with the extension of the path ensured
LinkName(a, fullURL) ==
  LET ext  == ToLower(Ext(UrlPath(fullURL)))
      name == sanitizeFilename(RawName(a, fullURL))
  IN IF ~HasSuffix(ToLower(name), ext) /\ ext # <<>> THEN name \o ext ELSE name

\* the callback without the test of seen
KeptNoSeen(config, a, seen) ==
  /\ ~SkippedHref(a.href)
  /\ UrlParseOK(a.href)
  /\ ExtAccepted(config, ResolveRef(config.URL, a.href))
  /\ IncludeAccepted(config, ResolveRef(config.URL, a.href))

\* the anchor gets past every return of the callback and is appended
Kept(config, a, seen) ==
  /\ ~SkippedHref(a.href)
  /\ UrlParseOK(a.href)
  /\ ResolveRef(config.URL, a.href) \notin seen
  /\ ExtAccepted(config, ResolveRef(config.URL, a.href))
  /\ IncludeAccepted(config, ResolveRef(config.URL, a.href))

RECURSIVE EachAnchor(_, _, _, _)
\* doc.Find("a[href]").Each over the anchors from position i: the state of the
\* closure is the list links, the set seen, the calls of sanitizeFilename with
\* their results, and whether sanitizeFilename panicked
EachAnchor(config, doc, i, st) ==
  IF i > Len(doc) \/ st.panic THEN st
  ELSE IF ~Kept(config, doc[i], st.seen) THEN EachAnchor(config, doc, i + 1, st)
  ELSE LET fullURL == ResolveRef(config.URL, doc[i].href)
       IN IF SanitizePanics(RawName(doc[i], fullURL))
            THEN [st EXCEPT !.seen  = @ \cup {fullURL},
                            !.calls = Append(@, SanitizeCall(RawName(doc[i], fullURL))),
                            !.panic = TRUE]
            ELSE EachAnchor(config, doc, i + 1,
                   [st EXCEPT !.seen  = @ \cup {fullURL},
                              !.calls = Append(@, SanitizeCall(RawName(doc[i], fullURL))),
                              !.links = Append(@, [Name |-> LinkName(doc[i], fullURL),
                                                   URL  |-> fullURL])])

\* the result of the traversal of a document
ExtractFrom(config, doc) ==
  EachAnchor(config, doc, 1, [links |-> <<>>, seen |-> {}, calls |-> <<>>, panic |-> FALSE])

(* -------------------------- getUniqueFilename ------------------------- *)
\* usedNames[base], zero for a name never requested
UsedCount(used, base) == IF base \in DOMAIN used THEN used[base] ELSE 0

\* fmt.Sprintf("%s_%d%s", nameWithoutExt, i, ext)
NumberedName(name, i) == TrimSuffix(name, Ext(name)) \o <<"_">> \o Itoa(i) \o Ext(name)

\* the numbered search begun one past its first candidate
FirstFreeAfter(files, name, from) ==
  CHOOSE i \in (from + 1)..(from + 1 + Cardinality(files)) :
    /\ NumberedName(name, i) \notin files
    /\ \A j \in (from + 1)..(i - 1) : NumberedName(name, j) \in files

\* the first i >= from whose numbered name is not a file of the directory
FirstFree(files, name, from) ==
  CHOOSE i \in from..(from + Cardinality(files)) :
    /\ NumberedName(name, i) \notin files
    /\ \A j \in from..(i - 1) : NumberedName(name, j) \in files

\* getUniqueFilename without the os.Stat of the first request
UniqueNameNoStat(files, name, used) ==
  IF UsedCount(used, name) = 0
    THEN name
    ELSE NumberedName(name, FirstFree(files, name, UsedCount(used, name) + 1))

\* getUniqueFilename with the numbered search begun at count, not count + 1
UniqueNameFromCount(files, name, used) ==
  IF UsedCount(used, name) = 0 /\ name \notin files
    THEN name
    ELSE NumberedName(name, FirstFree(files, name, UsedCount(used, name)))

\* the name getUniqueFilename returns, files being the names os.Stat finds
UniqueName(files, name, used) ==
  IF UsedCount(used, name) = 0 /\ name \notin files
    THEN name
    ELSE NumberedName(name, FirstFree(files, name, UsedCount(used, name) + 1))

\* usedNames after the call
UsedAfter(name, used) ==
  [b \in DOMAIN used \cup {name} |-> IF b = name THEN UsedCount(used, name) + 1 ELSE used[b]]

(* ------------------------------- inputs ------------------------------- *)
\* http://h/d/i, the page
PageURL == <<"h","t","t","p",":","/","/","h","/","d","/","i">>
\* a URL http.NewRequest rejects (missing protocol scheme)
BadURL == <<":","x">>
\* the default of --ext
DefaultExt == <<"p","d","f",",","x","l","s","x",",","x","l","s",",","x","l","s","m">>
\* --ext " .PDF, ,txt"
OddExt == <<" ",".","P","D","F",","," ",",","t","x","t">>
\* --include "(" does not compile; --include "a.*\.pdf" does
BadPattern == <<"(">>
GoodPattern == <<"a",".","*","\\",".","p","d","f">>
\* --include "d/"
DirPattern == <<"d","/">>

Anchor(h, t) == [href |-> h, text |-> t]
\* n copies of the character c
Rep(c, n) == [i \in 1..n |-> c]

\* three links, two of them asking for the name the third one's number gives
DocReports ==
  << Anchor(<<"/","a",".","p","d","f">>, <<"R">>),
     Anchor(<<"/","b",".","p","d","f">>, <<" ","R"," ">>),
     Anchor(<<"/","c",".","p","d","f">>, <<"R","_","2">>) >>
\* three links with one name
DocSame ==
  << Anchor(<<"/","a",".","p","d","f">>, <<"R">>),
     Anchor(<<"/","b",".","P","D","F">>, <<"R">>),
     Anchor(<<"/","c",".","p","d","f">>, <<"R",".","p","d","f">>) >>
\* one target under three spellings, and hrefs that are skipped
DocDup ==
  << Anchor(<<"#","t">>, <<"T">>),
     Anchor(<<"/","d","/","a",".","p","d","f">>, <<"O","n","e">>),
     Anchor(<<"a",".","p","d","f">>, <<"D","u","p">>),
     Anchor(<<".","/","a",".","p","d","f">>, <<>>),
     Anchor(JavascriptPrefix \o <<"v">>, <<"J">>),
     Anchor(<<"%","z","z",".","p","d","f">>, <<"Z">>),
     Anchor(<<>>, <<"E">>),
     Anchor(<<"n",".","t","x","t">>, <<>>),
     Anchor(<<"H","T","T","P",":","/","/","h","/","d","/","n",".","t","x","t">>, <<"N","2">>),
     Anchor(<<"x",".","h","t","m","l">>, <<"X">>) >>
\* a page without file links
DocNone == << Anchor(<<"x",".","h","t","m","l">>, <<"X">>) >>
\* an anchor text whose part after its dot is longer than the limit
DocLong == << Anchor(<<"/","a",".","p","d","f">>, <<"a", ".">> \o Rep("b", NameLimit + 1)) >>

Docs == {DocReports, DocSame, DocDup, DocNone, DocLong}

\* links with and without the extensions of --ext "pdf,docx" and of --all
DocExts ==
  << Anchor(<<"a",".","p","d","f">>, <<"A">>),
     Anchor(<<"b",".","P","D","F">>, <<"B">>),
     Anchor(<<"c",".","d","o","c","x">>, <<"C">>),
     Anchor(<<"d",".","t","x","t">>, <<"D">>),
     Anchor(<<"e",".","p","d","f","x">>, <<"E">>),
     Anchor(<<"f">>, <<"F">>),
     Anchor(<<"g",".","z","i","p">>, <<"G">>),
     Anchor(<<"x",".","h","t","m","l">>, <<"H">>),
     Anchor(<<"t",".","T","A","R">>, <<"T">>),
     Anchor(<<"k",".","t","a","r",".","g","z">>, <<"K">>),
     Anchor(<<"p",".","d","o","c">>, <<"P">>),
     Anchor(<<"z",".","7","z">>, <<"Z">>) >>
\* links the pattern 2024.*\.pdf tells apart, one of them not a file link
DocYears ==
  << Anchor(<<"r","e","p","o","r","t","2","0","2","4","f","i","n","a","l",".","p","d","f">>, <<"F">>),
     Anchor(<<"r","e","p","o","r","t","2","0","2","3",".","p","d","f">>, <<"T">>),
     Anchor(<<"n","2","0","2","4",".","p","d","f",".","h","t","m","l">>, <<"N">>) >>
\* links repeated out of order, between links that are dropped
DocOrder ==
  << Anchor(<<"b",".","p","d","f">>, <<"B">>),
     Anchor(<<"a",".","p","d","f">>, <<"A">>),
     Anchor(<<"b",".","p","d","f">>, <<"B","2">>),
     Anchor(<<"c",".","h","t","m","l">>, <<"C">>),
     Anchor(<<".","/","a",".","p","d","f">>, <<"A","2">>),
     Anchor(<<"d",".","p","d","f">>, <<"D">>) >>
\* anchor texts for every step of sanitizeFilename and of the naming of a link
DocNames ==
  << Anchor(<<"/","a",".","p","d","f">>, <<"R","e","p","o","r","t"," ","O","n","e">>),
     Anchor(<<"/","q","/","M","y",".","F","i","l","e",".","P","D","F">>, <<" ">>),
     Anchor(<<"/","3",".","p","d","f">>, <<"a","<","b",">","c",":","d","\"","e","/","f","\\","g","|","h","?","i","*","j">>),
     Anchor(<<"/","4",".","p","d","f">>, <<"x","\t","\n"," ","y">>),
     Anchor(<<"/","5",".","p","d","f">>, <<"?","?","?">>),
     Anchor(<<"/","6",".","p","d","f">>, <<".","_","l","e","a","d",".","_">>),
     Anchor(<<"/","7",".","p","d","f">>, Rep("a", NameLimit + 5)),
     Anchor(<<"/","8",".","p","d","f">>, Rep("a", NameLimit - 1) \o <<".","t","a","r",".","g","z">>),
     Anchor(<<"/","9",".","p","d","f">>, Rep("a", 60) \o <<".">> \o Rep("b", NameLimit - 50)),
     Anchor(<<"/","1","0",".","p","d","f">>, Rep("a", 2) \o <<".">> \o Rep("b", NameLimit - 1)),
     Anchor(<<"/","r",".","p","d","f">>, <<"R",".","P","D","F">>),
     Anchor(<<"/","s",".","p","d","f">>, <<"p","d","f">>) >>

\* the pages of the runs that stop after the listing
ListDocs == {DocExts, DocYears, DocOrder, DocNames, DocLong}

\* the command lines: the URL, --ext, --all, --include, --list
CmdLine(u, e, a, i, l) == [url |-> u, ext |-> e, all |-> a, include |-> i, list |-> l]
CmdLines ==
  { CmdLine(PageURL, DefaultExt, FALSE, <<>>, FALSE),
    CmdLine(PageURL, DefaultExt, TRUE, DirPattern, FALSE),
    CmdLine(PageURL, OddExt, FALSE, GoodPattern, FALSE),
    CmdLine(PageURL, DefaultExt, FALSE, <<>>, TRUE),
    CmdLine(PageURL, DefaultExt, FALSE, BadPattern, FALSE),
    CmdLine(PageURL, DefaultExt, FALSE, BadPattern, TRUE),
    CmdLine(BadURL, DefaultExt, FALSE, <<>>, FALSE),
    CmdLine(<<>>, DefaultExt, FALSE, <<>>, FALSE) }

\* --ext "pdf,docx", --ext "html" and --include "2024.*\.pdf"
PdfDocx == <<"p","d","f",",","d","o","c","x">>
Html == <<"h","t","m","l">>
YearPattern == <<"2","0","2","4",".","*","\\",".","p","d","f">>
\* the command lines of the runs that stop after the listing
ListCmdLines ==
  { CmdLine(PageURL, PdfDocx, FALSE, <<>>, TRUE),
    CmdLine(PageURL, Html, TRUE, <<>>, TRUE),
    CmdLine(PageURL, DefaultExt, FALSE, YearPattern, TRUE) }

\* the values of --parallel
ParallelValues == (0 - 1)..MaxParallel

\* the files the output directory may hold before the run
RPdf == <<"R",".","p","d","f">>
PreExisting == {RPdf, NumberedName(RPdf, 1), NumberedName(RPdf, 2)}
\* the directories a downloading run starts with: empty, the name taken, a numbered
\* name taken, the name and its first number taken, all of them taken
StartDirs ==
  { {}, {RPdf}, {NumberedName(RPdf, 2)}, {RPdf, NumberedName(RPdf, 1)}, PreExisting }

(* ------------------------------- state -------------------------------- *)
VARIABLES
  config,        \* the Config parseFlags returned
  pages,         \* the documents the server may answer the GET of the page with
  mainPc,        \* where the main goroutine is
  exitCode,      \* the exit status, -1 while the process runs
  errKind,       \* the fatal error printed, "" when none
  pageGets,      \* the GETs of the page issued
  doc,           \* the anchors of the parsed page, in document order
  links,         \* the list extractLinks returned
  sanitizeCalls, \* the calls of sanitizeFilename made by extractLinks, in order
  listed,        \* the number of entries of the printed listing
  listing,       \* the entries of the printed listing: number, name and URL
  mkdirCalls,    \* the calls of os.MkdirAll
  dir0,          \* the names of the files of the output directory before the run
  files,         \* the names of the files of the output directory
  sem,           \* the number of tokens in the channel sem
  mu,            \* the worker holding the mutex, 0 when free
  wg,            \* the counter of the WaitGroup
  usedNames,     \* the map usedNames
  wpc,           \* where each worker goroutine is
  filename,      \* the name getUniqueFilename returned to each worker
  err,           \* the result of downloadFile of each worker
  attempts,      \* the GETs each worker issued
  outcome,       \* the marks of the outcome lines printed for each worker
  successCount, failCount,
  tally          \* the final line printed, <<>> before

vars == <<config, pages, mainPc, exitCode, errKind, pageGets, doc, links, sanitizeCalls, listed,
          listing, mkdirCalls, dir0, files,
          sem, mu, wg, usedNames, wpc, filename, err, attempts, outcome,
          successCount, failCount, tally>>

mainVars == <<config, pages, mainPc, exitCode, errKind, pageGets, doc, links, sanitizeCalls, listed,
              listing, mkdirCalls, dir0>>
poolVars == <<sem, mu, wg, usedNames, wpc, filename, err, attempts, outcome,
              successCount, failCount, tally>>

\* the worker goroutines, one for each link, once downloadAll has its locals
Workers == DOMAIN wpc

\* the state after parseFlags returned, for one command line, the pages the server
\* may answer with, and one directory
Init ==
  /\ \E a \in CmdLines \cup ListCmdLines, p \in ParallelValues :
       /\ config = parseFlags([url |-> a.url, parallel |-> p, ext |-> a.ext, all |-> a.all,
                               include |-> a.include, list |-> a.list])
       /\ pages = IF a \in ListCmdLines THEN ListDocs ELSE Docs
       /\ dir0 \in IF a \in ListCmdLines THEN {{}} ELSE StartDirs
  /\ files = dir0
  /\ mainPc = "main"
  /\ exitCode = 0 - 1
  /\ errKind = ""
  /\ pageGets = 0
  /\ doc = <<>>
  /\ links = <<>>
  /\ sanitizeCalls = <<>>
  /\ listed = 0
  /\ listing = <<>>
  /\ mkdirCalls = 0
  /\ sem = 0
  /\ mu = 0
  /\ wg = 0
  /\ usedNames = <<>>
  /\ wpc = <<>>
  /\ filename = <<>>
  /\ err = <<>>
  /\ attempts = <<>>
  /\ outcome = <<>>
  /\ successCount = 0
  /\ failCount = 0
  /\ tally = <<>>

(* -------------------------------- main -------------------------------- *)
\* os.Exit(code) after the message of kind
Exit(code, kind) ==
  /\ mainPc' = "exited"
  /\ exitCode' = code
  /\ errKind' = kind

\* main: no URL was given; the usage is printed
MainNoURL ==
  /\ mainPc = "main"
  /\ config.URL = <<>>
  /\ Exit(1, "usage")
  /\ UNCHANGED <<config, pages, pageGets, doc, links, sanitizeCalls, listed, listing,
                 mkdirCalls, dir0, files>>
  /\ UNCHANGED poolVars

\* extractLinks: http.NewRequest parses the URL
ExtractNewRequest ==
  /\ mainPc = "main"
  /\ config.URL # <<>>
  /\ IF UrlParseOK(config.URL)
       THEN mainPc' = "get" /\ UNCHANGED <<exitCode, errKind>>
       ELSE Exit(1, "url")
  /\ UNCHANGED <<config, pages, pageGets, doc, links, sanitizeCalls, listed, listing,
                 mkdirCalls, dir0, files>>
  /\ UNCHANGED poolVars

\* the page is read in the order the code reads it: the GET, the status, the parse
PageOutcomes == {"transport", "status", "parse", "ok"}

\* extractLinks: client.Do issues the GET; the status is checked, the body parsed
\* and the base URL parsed again
ExtractGet ==
  /\ mainPc = "get"
  /\ pageGets' = pageGets + 1
  /\ \E r \in PageOutcomes, d \in pages :
       IF r = "ok"
         THEN /\ mainPc' = "compile"
              /\ doc' = d
              /\ UNCHANGED <<exitCode, errKind>>
         ELSE Exit(1, r) /\ UNCHANGED doc
  /\ UNCHANGED <<config, pages, links, sanitizeCalls, listed, listing, mkdirCalls, dir0, files>>
  /\ UNCHANGED poolVars

\* the error of regexp.Compile ignored
PatternNeverRejected == FALSE

\* --include is set and regexp.Compile returns an error
PatternRejected == config.Include # <<>> /\ ~RegexpCompileOK(config.Include)

\* extractLinks: regexp.Compile of a non-empty --include
ExtractCompile ==
  /\ mainPc = "compile"
  /\ IF PatternRejected
       THEN Exit(1, "invalid include pattern")
       ELSE mainPc' = "each" /\ UNCHANGED <<exitCode, errKind>>
  /\ UNCHANGED <<config, pages, pageGets, doc, links, sanitizeCalls, listed, listing,
                 mkdirCalls, dir0, files>>
  /\ UNCHANGED poolVars

\* extractLinks: the traversal of the anchors, and the return to main
ExtractEach ==
  /\ mainPc = "each"
  /\ LET r == ExtractFrom(config, doc)
     IN /\ sanitizeCalls' = r.calls
        /\ IF r.panic
             THEN /\ mainPc' = "panic"
                  /\ exitCode' = 2
                  /\ errKind' = "slice bounds out of range"
                  /\ UNCHANGED links
             ELSE /\ mainPc' = "list"
                  /\ links' = r.links
                  /\ UNCHANGED <<exitCode, errKind>>
  /\ UNCHANGED <<config, pages, pageGets, doc, listed, listing, mkdirCalls, dir0, files>>
  /\ UNCHANGED poolVars

\* --list ignored
NeverStopsAfterList == FALSE

\* main returns after the listing
StopsAfterList == config.ListOnly

\* the listing numbered by the index of the range
ListingFromZero(list) ==
  [k \in 1..Len(list) |-> [No |-> k - 1, Name |-> list[k].Name, URL |-> list[k].URL]]

\* the loop that prints the listing: entry i of the range gets the number i + 1
Listing(list) ==
  [k \in 1..Len(list) |-> [No |-> (k - 1) + 1, Name |-> list[k].Name, URL |-> list[k].URL]]

\* main: nothing found, or the numbered listing and the --list return
MainList ==
  /\ mainPc = "list"
  /\ IF Len(links) = 0
       THEN Exit(0, "") /\ UNCHANGED <<listed, listing>>
       ELSE /\ listed' = Len(links)
            /\ listing' = Listing(links)
            /\ IF StopsAfterList
                 THEN Exit(0, "")
                 ELSE mainPc' = "mkdir" /\ UNCHANGED <<exitCode, errKind>>
  /\ UNCHANGED <<config, pages, pageGets, doc, links, sanitizeCalls, mkdirCalls, dir0, files>>
  /\ UNCHANGED poolVars

\* main: os.MkdirAll creates the output directory or fails
MainMkdir ==
  /\ mainPc = "mkdir"
  /\ mkdirCalls' = mkdirCalls + 1
  /\ \E ok \in BOOLEAN :
       IF ok THEN mainPc' = "downloadAll" /\ UNCHANGED <<exitCode, errKind>>
             ELSE Exit(1, "mkdir")
  /\ UNCHANGED <<config, pages, pageGets, doc, links, sanitizeCalls, listed, listing, dir0, files>>
  /\ UNCHANGED poolVars

(* ----------------------------- downloadAll ---------------------------- *)
\* no result of downloadFile at hand
NoResult == [kind |-> "none", code |-> 0]

\* make(chan struct{}, config.Parallel) panics on a negative size; otherwise the
\* locals are initialised
DownloadAllStart ==
  /\ mainPc = "downloadAll"
  /\ IF config.Parallel < 0
       THEN /\ mainPc' = "panic"
            /\ exitCode' = 2
            /\ errKind' = "makechan: size out of range"
            /\ UNCHANGED poolVars
       ELSE /\ mainPc' = "spawn"
            /\ wpc' = [w \in 1..Len(links) |-> "unborn"]
            /\ filename' = [w \in 1..Len(links) |-> <<>>]
            /\ err' = [w \in 1..Len(links) |-> NoResult]
            /\ attempts' = [w \in 1..Len(links) |-> 0]
            /\ outcome' = [w \in 1..Len(links) |-> <<>>]
            /\ UNCHANGED <<exitCode, errKind, sem, mu, wg, usedNames, successCount,
                           failCount, tally>>
  /\ UNCHANGED <<config, pages, pageGets, doc, links, sanitizeCalls, listed, listing,
                 mkdirCalls, dir0, files>>

\* the loop over links: wg.Add(1) and the go statement, for the next link
Spawn(w) ==
  /\ mainPc = "spawn"
  /\ wpc[w] = "unborn"
  /\ \A v \in Workers : v < w => wpc[v] # "unborn"
  /\ wg' = wg + 1
  /\ wpc' = [wpc EXCEPT ![w] = "acquire"]
  /\ mainPc' = IF w = Len(links) THEN "wait" ELSE "spawn"
  /\ UNCHANGED <<config, pages, exitCode, errKind, pageGets, doc, links, sanitizeCalls, listed,
                 listing, mkdirCalls, dir0, files>>
  /\ UNCHANGED <<sem, mu, usedNames, filename, err, attempts, outcome,
                 successCount, failCount, tally>>

\* a channel made one slot larger than config.Parallel
SemHasRoomOffByOne == sem <= config.Parallel

\* a send on sem can proceed: the buffer has room
SemHasRoom == sem < config.Parallel

\* mu.Lock() never waits
MuAlwaysFree == TRUE

\* mu.Lock() can proceed
MuFree == mu = 0

\* sem <- struct{}{}
Acquire(w) ==
  /\ wpc[w] = "acquire"
  /\ SemHasRoom
  /\ sem' = sem + 1
  /\ wpc' = [wpc EXCEPT ![w] = "lockAlloc"]
  /\ UNCHANGED mainVars
  /\ UNCHANGED <<files, mu, wg, usedNames, filename, err, attempts, outcome,
                 successCount, failCount, tally>>

\* the first mu.Lock()
LockAlloc(w) ==
  /\ wpc[w] = "lockAlloc"
  /\ MuFree
  /\ mu' = w
  /\ wpc' = [wpc EXCEPT ![w] = "alloc"]
  /\ UNCHANGED mainVars
  /\ UNCHANGED <<files, sem, wg, usedNames, filename, err, attempts, outcome,
                 successCount, failCount, tally>>

\* getUniqueFilename under the mutex, and mu.Unlock()
Allocate(w) ==
  /\ wpc[w] = "alloc"
  /\ filename' = [filename EXCEPT ![w] = UniqueName(files, links[w].Name, usedNames)]
  /\ usedNames' = UsedAfter(links[w].Name, usedNames)
  /\ mu' = 0
  /\ wpc' = [wpc EXCEPT ![w] = "download"]
  /\ UNCHANGED mainVars
  /\ UNCHANGED <<files, sem, wg, err, attempts, outcome, successCount, failCount, tally>>

\* what downloadFile meets, in the order it meets it
\* http.StatusOK
StatusOK == 200
\* the status codes a server answers the GET of a file with
Statuses == {200, 204, 404}

\* every status of the class 2xx passes
StatusErrorNon2xx(code) == code < 200 \/ code > 299

\* resp.StatusCode != http.StatusOK
StatusError(code) == code # StatusOK

\* what one call of downloadFile meets: whether client.Do gets a response, the
\* status code of the response (0 without one), and how far the writing of the
\* file goes ("none" when the call returns before os.Create)
Fetches ==
  {f \in [get : {"transport", "response"}, status : Statuses \cup {0},
          write : {"none", "create", "copy", "ok"}] :
     /\ f.status = 0 <=> f.get = "transport"
     /\ f.write = "none" <=> (f.get = "transport" \/ StatusError(f.status))}

\* the result of downloadFile: nil ("ok") or the first error on its way, with the
\* status code of the response when there was one
downloadFile(f) ==
  IF f.get = "transport" THEN [kind |-> "transport", code |-> 0]
  ELSE IF StatusError(f.status) THEN [kind |-> "status", code |-> f.status]
  ELSE [kind |-> f.write, code |-> f.status]

\* the file exists after downloadFile: os.Create succeeded
Created(r) == r.kind \in {"copy", "ok"}

\* downloadFile: the GET, the status test, os.Create and io.Copy
DownloadFile(w) ==
  /\ wpc[w] = "download"
  /\ attempts' = [attempts EXCEPT ![w] = @ + 1]
  /\ \E f \in Fetches :
       /\ err' = [err EXCEPT ![w] = downloadFile(f)]
       /\ files' = IF Created(downloadFile(f)) THEN files \cup {filename[w]} ELSE files
  /\ wpc' = [wpc EXCEPT ![w] = "lockReport"]
  /\ UNCHANGED mainVars
  /\ UNCHANGED <<sem, mu, wg, usedNames, filename, outcome, successCount, failCount, tally>>

\* the second mu.Lock()
LockReport(w) ==
  /\ wpc[w] = "lockReport"
  /\ MuFree
  /\ mu' = w
  /\ wpc' = [wpc EXCEPT ![w] = "report"]
  /\ UNCHANGED mainVars
  /\ UNCHANGED <<files, sem, wg, usedNames, filename, err, attempts, outcome,
                 successCount, failCount, tally>>

\* downloadFile returned a non-nil error
Failed(r) == r.kind # "ok"

\* the outcome line and the counter under the mutex, and mu.Unlock(); err is not
\* read again
Report(w) ==
  /\ wpc[w] = "report"
  /\ IF Failed(err[w])
       THEN /\ outcome' = [outcome EXCEPT ![w] = Append(@, "fail")]
            /\ failCount' = failCount + 1
            /\ UNCHANGED successCount
       ELSE /\ outcome' = [outcome EXCEPT ![w] = Append(@, "ok")]
            /\ successCount' = successCount + 1
            /\ UNCHANGED failCount
  /\ err' = [err EXCEPT ![w] = NoResult]
  /\ mu' = 0
  /\ wpc' = [wpc EXCEPT ![w] = "release"]
  /\ UNCHANGED mainVars
  /\ UNCHANGED <<files, sem, wg, usedNames, filename, attempts, tally>>

\* the deferred <-sem
Release(w) ==
  /\ wpc[w] = "release"
  /\ sem' = sem - 1
  /\ wpc' = [wpc EXCEPT ![w] = "wgDone"]
  /\ UNCHANGED mainVars
  /\ UNCHANGED <<files, mu, wg, usedNames, filename, err, attempts, outcome,
                 successCount, failCount, tally>>

\* the deferred wg.Done()
Done(w) ==
  /\ wpc[w] = "wgDone"
  /\ wg' = wg - 1
  /\ wpc' = [wpc EXCEPT ![w] = "returned"]
  /\ UNCHANGED mainVars
  /\ UNCHANGED <<files, sem, mu, usedNames, filename, err, attempts, outcome,
                 successCount, failCount, tally>>

\* wg.Wait() left out
WaitNotAwaited == TRUE

\* wg.Wait() can return
WaitReturns == wg = 0

\* wg.Wait() returns, the final line is printed and main returns
WaitAndTally ==
  /\ mainPc = "wait"
  /\ WaitReturns
  /\ tally' = <<successCount, failCount>>
  /\ mainPc' = "exited"
  /\ exitCode' = 0
  /\ UNCHANGED <<config, pages, errKind, pageGets, doc, links, sanitizeCalls, listed, listing,
                 mkdirCalls, dir0, files>>
  /\ UNCHANGED <<sem, mu, wg, usedNames, wpc, filename, err, attempts, outcome,
                 successCount, failCount>>

\* every goroutine is blocked for ever: main in wg.Wait, each worker not yet
\* returned in its send on a channel without room
AllAsleep ==
  /\ mainPc = "wait"
  /\ wg > 0
  /\ \A w \in Workers : wpc[w] \in {"acquire", "returned"}
  /\ ~SemHasRoom

\* the runtime may detect that state and end the process ("all goroutines are
\* asleep - deadlock!", status 2); when it does not, the process hangs
RuntimeDeadlock ==
  /\ AllAsleep
  /\ mainPc' = "fatal"
  /\ exitCode' = 2
  /\ errKind' = "deadlock"
  /\ UNCHANGED <<config, pages, pageGets, doc, links, sanitizeCalls, listed, listing,
                 mkdirCalls, dir0, files>>
  /\ UNCHANGED poolVars

Next ==
  \/ MainNoURL
  \/ ExtractNewRequest
  \/ ExtractGet
  \/ ExtractCompile
  \/ ExtractEach
  \/ MainList
  \/ MainMkdir
  \/ DownloadAllStart
  \/ \E w \in Workers : Spawn(w)
  \/ \E w \in Workers : Acquire(w)
  \/ \E w \in Workers : LockAlloc(w)
  \/ \E w \in Workers : Allocate(w)
  \/ \E w \in Workers : DownloadFile(w)
  \/ \E w \in Workers : LockReport(w)
  \/ \E w \in Workers : Report(w)
  \/ \E w \in Workers : Release(w)
  \/ \E w \in Workers : Done(w)
  \/ WaitAndTally
  \/ RuntimeDeadlock

Spec == Init /\ [][Next]_vars

(* ------------------------------- claims ------------------------------- *)
\* the workers getUniqueFilename has returned a name to
Allocated == {w \in Workers : wpc[w] \notin {"unborn", "acquire", "lockAlloc", "alloc"}}

\* the workers holding a slot of the pool: past the send on sem, before the receive
Holders == {w \in Workers : wpc[w] \in {"lockAlloc", "alloc", "download", "lockReport",
                                        "report", "release"}}

\* C1: no two allocations of one run return the same final name, whatever the
\* desired names, the directory and the interleaving.
C1_DistinctFinalNames ==
  \A v \in Allocated, w \in Allocated : v # w => filename[v] # filename[w]

\* C2: the name an allocation returns is the name of no file of the directory at
\* the moment of the call: an existing desired name is not returned unchanged and
\* an existing numbered name is not returned.
C2_ReturnedNameNotOnDisk ==
  [][\A w \in Workers :
       (wpc[w] = "alloc" /\ wpc'[w] = "download") => filename'[w] \notin files]_vars

\* a first request whose desired name and first numbered name both exist was
\* answered with the second numbered name
C2_Witness ==
  \E w \in Workers :
    /\ wpc[w] = "download"
    /\ UsedCount(usedNames, links[w].Name) = 1
    /\ {links[w].Name, NumberedName(links[w].Name, 1)} \subseteq dir0
    /\ filename[w] = NumberedName(links[w].Name, 2)
    /\ filename[w] \notin files

\* C3: in the download phase the workers holding a pool slot, and so the fetches
\* in flight, are never more than config.Parallel.
C3_PoolBound ==
  Workers # {} =>
    /\ Cardinality(Holders) <= config.Parallel
    /\ Cardinality({w \in Workers : wpc[w] = "download"}) <= config.Parallel

\* the pool is full with two fetches in flight and a third worker waits for a slot
C3_Witness ==
  /\ config.Parallel = 2
  /\ Cardinality({w \in Workers : wpc[w] = "download"}) = 2
  /\ \E w \in Workers : wpc[w] = "acquire"

\* C4: once the final line is printed, every candidate had one worker, which
\* fetched once, printed one outcome line and returned, and the line shows
\* success = N - M and fail = M for the M failed outcomes among the N candidates.
C4_ExactTally ==
  tally # <<>> =>
    /\ Workers = 1..Len(links)
    /\ \A w \in Workers : wpc[w] = "returned" /\ attempts[w] = 1 /\ Len(outcome[w]) = 1
    /\ LET M == Cardinality({w \in Workers : outcome[w] = <<"fail">>})
       IN tally = <<Len(links) - M, M>>

\* three candidates, one failed and two succeeded, with two workers at a time
C4_Witness ==
  /\ tally = <<2, 1>>
  /\ Len(links) = 3
  /\ config.Parallel = 2

\* C5: the download engine never fails as a whole: for every value of --parallel
\* it neither aborts nor deadlocks, so that the final line is printed in the end.
C5_EngineNeverFails ==
  /\ errKind \notin {"makechan: size out of range", "deadlock"}
  /\ ~AllAsleep

\* C6: k candidates with one desired name, allocated against a directory that was
\* empty, get pairwise distinct names, the name itself and its numbers 2..k.
C6_SameNameNumbering ==
  (dir0 = {} /\ Workers # {} /\ \A w \in Workers : links[w].Name = links[1].Name) =>
    LET k == Cardinality(Allocated)
    IN /\ {filename[w] : w \in Allocated} =
            IF k = 0 THEN {}
            ELSE {links[1].Name} \cup {NumberedName(links[1].Name, n) : n \in 2..k}
       /\ Cardinality({filename[w] : w \in Allocated}) = k

\* three candidates of one name are allocated while two fetch at a time, the
\* second-named file being on disk before the third allocation
C6_Witness ==
  /\ dir0 = {}
  /\ config.Parallel = 2
  /\ Cardinality(Workers) = 3
  /\ Allocated = Workers
  /\ \A w \in Workers : links[w].Name = links[1].Name
  /\ \E w \in Workers : filename[w] = NumberedName(links[1].Name, 3)
  /\ NumberedName(links[1].Name, 2) \in files
  /\ links[1].Name \notin files

\* the anchors of the document that reach the resolution and resolve to u
AnchorsOf(u) ==
  {k \in 1..Len(doc) : /\ ~SkippedHref(doc[k].href)
                       /\ UrlParseOK(doc[k].href)
                       /\ ResolveRef(config.URL, doc[k].href) = u}

\* C7: when extractLinks returns, no two candidates have the same resolved URL,
\* and each candidate is named from the first anchor of the document that
\* resolves to its URL.
C7_DedupFirstWins ==
  mainPc = "list" =>
    /\ \A i \in 1..Len(links), j \in 1..Len(links) : i # j => links[i].URL # links[j].URL
    /\ \A i \in 1..Len(links) :
         /\ AnchorsOf(links[i].URL) # {}
         /\ LET first == CHOOSE k \in AnchorsOf(links[i].URL) :
                           \A m \in AnchorsOf(links[i].URL) : k <= m
            IN links[i].Name = LinkName(doc[first], links[i].URL)

\* three anchors spell one target; the candidate has the name of the first one
C7_Witness ==
  /\ mainPc = "list"
  /\ doc = DocDup
  /\ Len(links) >= 1
  /\ Cardinality(AnchorsOf(links[1].URL)) = 3
  /\ links[1].Name = <<"O","n","e",".","p","d","f">>

\* C8: with an include pattern that does not compile, the invalid-pattern error
\* comes before any GET of the page.
C8_PatternErrorBeforeFetch ==
  errKind = "invalid include pattern" => pageGets = 0

\* C8 as the code has it: with an include pattern that does not compile, no
\* anchor is examined and nothing is listed, created or downloaded; the
\* invalid-pattern error ends the run with status 1 after exactly one GET of the
\* page, and only when that GET and the parse succeeded.
C8_PatternErrorAfterFetch ==
  (config.Include # <<>> /\ ~RegexpCompileOK(config.Include)) =>
    /\ links = <<>> /\ listed = 0 /\ mkdirCalls = 0 /\ Workers = {} /\ files = dir0
    /\ mainPc \notin {"each", "list", "mkdir", "downloadAll", "spawn", "wait"}
    /\ errKind = "invalid include pattern" =>
         (pageGets = 1 /\ doc \in Docs /\ exitCode = 1 /\ mainPc = "exited")
    /\ (mainPc = "exited" /\ pageGets = 1 /\ errKind \notin {"transport", "status", "parse"})
         => errKind = "invalid include pattern"

\* the run ended with the invalid-pattern error, the page having been fetched
C8_Witness ==
  /\ errKind = "invalid include pattern"
  /\ pageGets = 1
  /\ exitCode = 1

\* the fatal errors of a run: no URL, a malformed URL, a failed GET, status or
\* parse of the page (a crash of the traversal among them), an include pattern
\* that does not compile, a directory that cannot be created
FatalKinds == {"usage", "url", "transport", "status", "parse", "slice bounds out of range",
               "invalid include pattern", "mkdir"}

\* C9: the process exits non-zero exactly when no URL was given or a fatal error
\* of the whole run occurred; once the extraction succeeded and the directory
\* exists the status is zero, however many downloads fail.
C9_ExitStatus ==
  exitCode # (0 - 1) =>
    /\ exitCode # 0 <=> errKind \in FatalKinds
    /\ (errKind = "" /\ mkdirCalls = 1) => exitCode = 0

\* C10: with --list, and when no candidate is found, nothing but the extraction
\* and the listing happens: no directory is created, no name allocated, no
\* download fetched, no file written; the run ends with status 0.
C10_ListOnlyFrame ==
  (config.ListOnly \/ (mainPc \in {"list", "exited"} /\ errKind = "" /\ Len(links) = 0)) =>
    /\ mkdirCalls = 0
    /\ Workers = {}
    /\ usedNames = <<>>
    /\ files = dir0
    /\ tally = <<>>
    /\ mainPc \notin {"mkdir", "downloadAll", "spawn", "wait"}
    /\ (mainPc = "exited" /\ errKind = "") => (exitCode = 0 /\ listed = Len(links))

\* a --list run printed its three entries and ended
C10_Witness ==
  /\ config.ListOnly
  /\ mainPc = "exited"
  /\ exitCode = 0
  /\ listed = 3
  /\ mkdirCalls = 0

\* the calls of sanitizeFilename that returned
Returned == {k \in 1..Len(sanitizeCalls) : sanitizeCalls[k].ok}

\* C11: whatever string sanitizeFilename is given, the string it returns holds
\* none of < > : " / \ | ? * and no control character, is not empty (a name
\* emptied by the cleaning comes back as "unnamed"), and is at most 200
\* characters long, extension included.
C11_SanitizedNameClean ==
  mainPc \in {"list", "panic"} =>
    \A k \in Returned :
      LET out == sanitizeCalls[k].ret
      IN /\ \A i \in 1..Len(out) :
              out[i] \notin {"<", ">", ":", "\"", "/", "\\", "|", "?", "*", "\t", "\n", "\r", "\f"}
         /\ out # <<>>
         /\ Len(out) <= 200
         /\ (\A i \in 1..Len(sanitizeCalls[k].arg) :
               sanitizeCalls[k].arg[i] \in {"?", ".", "_", " "}) => out = <<"u","n","n","a","m","e","d">>

\* the traversal sanitized a text with forbidden characters, a text that the
\* cleaning empties, and a text longer than the limit, which came back cut
C11_Witness ==
  /\ mainPc = "list"
  /\ \E k \in Returned : \E i \in 1..Len(sanitizeCalls[k].arg) : sanitizeCalls[k].arg[i] \in {"<", "\t"}
  /\ \E k \in Returned : sanitizeCalls[k].arg = <<"?","?","?">>
  /\ \E k \in Returned : Len(sanitizeCalls[k].arg) > 200 /\ Len(sanitizeCalls[k].ret) = 200

\* the part of a name from its last dot on, the whole name having no slash
DotSuffix(n) ==
  IF \E i \in 1..Len(n) : n[i] = "."
    THEN SubSeq(n, CHOOSE i \in 1..Len(n) : n[i] = "." /\ \A j \in (i + 1)..Len(n) : n[j] # ".", Len(n))
    ELSE <<>>

\* C12: sanitizeFilename returns a string for every argument, also for one that
\* is longer than 200 characters with a part after its last dot of any length;
\* a name that is cut keeps that part whole and loses characters only before it.
C12_SanitizeTotal ==
  mainPc \in {"list", "panic"} =>
    \A k \in 1..Len(sanitizeCalls) :
      /\ sanitizeCalls[k].ok
      /\ LET arg == sanitizeCalls[k].arg
             out == sanitizeCalls[k].ret
         IN (Len(arg) > 200 /\ \A i \in 1..Len(arg) : arg[i] \in {"a", "b", "."}) =>
              /\ DotSuffix(out) = DotSuffix(arg)
              /\ \E n \in 0..Len(arg) : out = SubSeq(arg, 1, n) \o DotSuffix(arg)

\* the anchors of the page whose href is resolved, and the URL each resolves to
Resolved == {i \in 1..Len(doc) : ~SkippedHref(doc[i].href) /\ UrlParseOK(doc[i].href)}
Target(i) == ResolveRef(config.URL, doc[i].href)
\* the URLs of the list, in its order
LinkURLs == [k \in 1..Len(links) |-> links[k].URL]
Listed(u) == \E k \in 1..Len(links) : links[k].URL = u

\* C13: with an extension list and no --all, a link is kept exactly when the
\* lower-cased extension of the path of its resolved URL equals an entry of the
\* list; with "pdf,docx" the links .pdf, .PDF and .docx are kept and .txt, .pdfx
\* and a path without extension are not.
C13_ExtListExactMatch ==
  (mainPc = "list" /\ ~config.All /\ config.Include = <<>>) =>
    /\ \A i \in Resolved :
         Listed(Target(i)) <=>
           \E k \in 1..Len(config.Exts) : ToLower(Ext(UrlPath(Target(i)))) = config.Exts[k]
    /\ (doc = DocExts /\ config.Exts = <<<<".","p","d","f">>, <<".","d","o","c","x">>>>) =>
         LinkURLs = <<<<"h","t","t","p",":","/","/","h","/","d","/","a",".","p","d","f">>, <<"h","t","t","p",":","/","/","h","/","d","/","b",".","P","D","F">>, <<"h","t","t","p",":","/","/","h","/","d","/","c",".","d","o","c","x">>>>

\* the page of DocExts was traversed with --ext "pdf,docx"
C13_Witness ==
  /\ mainPc = "list"
  /\ ~config.All
  /\ config.Exts = <<<<".","p","d","f">>, <<".","d","o","c","x">>>>
  /\ doc = DocExts
  /\ Len(links) = 3

\* C14: with --all the value of --ext plays no part: a link is kept exactly
\* when the path of its resolved URL ends, in any letter case, in a dot and one
\* of the known extensions; .zip is kept, .html is not even when --ext is "html".
C14_AllModeKnownExts ==
  (mainPc = "list" /\ config.All /\ config.Include = <<>>) =>
    /\ config.Exts = <<>>
    /\ \A i \in Resolved :
         Listed(Target(i)) <=>
           \E e \in KnownExts : HasSuffix(ToLower(UrlPath(Target(i))), <<".">> \o e)
    /\ doc = DocExts =>
         LinkURLs = <<<<"h","t","t","p",":","/","/","h","/","d","/","a",".","p","d","f">>,
                      <<"h","t","t","p",":","/","/","h","/","d","/","b",".","P","D","F">>,
                      <<"h","t","t","p",":","/","/","h","/","d","/","c",".","d","o","c","x">>,
                      <<"h","t","t","p",":","/","/","h","/","d","/","d",".","t","x","t">>,
                      <<"h","t","t","p",":","/","/","h","/","d","/","g",".","z","i","p">>,
                      <<"h","t","t","p",":","/","/","h","/","d","/","t",".","T","A","R">>,
                      <<"h","t","t","p",":","/","/","h","/","d","/","k",".","t","a","r",".","g","z">>,
                      <<"h","t","t","p",":","/","/","h","/","d","/","p",".","d","o","c">>,
                      <<"h","t","t","p",":","/","/","h","/","d","/","z",".","7","z">>>>

\* the page of DocExts was traversed with --all --ext "html"
C14_Witness ==
  /\ mainPc = "list"
  /\ config.All
  /\ config.Include = <<>>
  /\ doc = DocExts
  /\ Listed(<<"h","t","t","p",":","/","/","h","/","d","/","g",".","z","i","p">>)
  /\ ~Listed(<<"h","t","t","p",":","/","/","h","/","d","/","x",".","h","t","m","l">>)

\* C15: with an include pattern a link is kept exactly when it passes the
\* extension test and its resolved URL matches the pattern; without a pattern
\* the extension test decides alone.  2024.*\.pdf keeps report2024final.pdf and
\* drops report2023.pdf, and keeps no link the extension test drops.
C15_IncludeConjunction ==
  mainPc = "list" =>
    /\ \A i \in Resolved :
         Listed(Target(i)) <=>
           /\ ExtAccepted(config, Target(i))
           /\ config.Include # <<>> => MatchString(config.Include, Target(i))
    /\ doc = DocYears =>
         LinkURLs = IF config.Include = YearPattern THEN <<<<"h","t","t","p",":","/","/","h","/","d","/","r","e","p","o","r","t","2","0","2","4","f","i","n","a","l",".","p","d","f">>>>
                    ELSE <<<<"h","t","t","p",":","/","/","h","/","d","/","r","e","p","o","r","t","2","0","2","4","f","i","n","a","l",".","p","d","f">>, <<"h","t","t","p",":","/","/","h","/","d","/","r","e","p","o","r","t","2","0","2","3",".","p","d","f">>>>

\* the page of DocYears was traversed with --include "2024.*\.pdf"
C15_Witness ==
  /\ mainPc = "list"
  /\ config.Include = YearPattern
  /\ doc = DocYears
  /\ Len(links) = 1

\* the first anchor of the page that resolves to the URL u
FirstAnchor(u) ==
  CHOOSE i \in Resolved : Target(i) = u /\ \A j \in Resolved : j < i => Target(j) # u

\* C16: the name of a link is the sanitized trimmed text of its anchor, or the
\* sanitized last segment of the path of its URL when that text is empty,
\* followed by the lower-cased extension of the path unless the sanitized name
\* already ends with it in any letter case; so every name ends with the
\* extension of its URL: "Report One" on /a.pdf is named Report_One.pdf.
C16_DisplayName ==
  mainPc = "list" =>
    /\ Len(sanitizeCalls) = Len(links)
    /\ \A k \in 1..Len(links) :
         LET a    == doc[FirstAnchor(links[k].URL)]
             ext  == ToLower(Ext(UrlPath(links[k].URL)))
             call == sanitizeCalls[k]
         IN /\ call.arg = IF TrimSpace(a.text) # <<>> THEN TrimSpace(a.text)
                                                      ELSE Base(UrlPath(links[k].URL))
            /\ links[k].Name = IF HasSuffix(ToLower(call.ret), ext) THEN call.ret
                                                                    ELSE call.ret \o ext
            /\ ext # <<>>
            /\ HasSuffix(ToLower(links[k].Name), ext)
    /\ (doc = DocNames /\ config.Include = <<>>) =>
         /\ Len(links) = 12
         /\ links[1].Name = <<"R","e","p","o","r","t","_","O","n","e",".","p","d","f">>
         /\ links[2].Name = <<"M","y",".","F","i","l","e",".","P","D","F">>
         /\ links[5].Name = <<"u","n","n","a","m","e","d",".","p","d","f">>
         /\ links[11].Name = <<"R",".","P","D","F">>
         /\ links[12].Name = <<"p","d","f",".","p","d","f">>

\* the page of DocNames was traversed: a text with a blank, an empty text, a text
\* that already ends with the extension in capitals
C16_Witness ==
  /\ mainPc = "list"
  /\ doc = DocNames
  /\ Len(links) = 12
  /\ links[1].Name = <<"R","e","p","o","r","t","_","O","n","e",".","p","d","f">>

\* the worker w prints its outcome line in this step
Reports(w) == wpc[w] = "report" /\ wpc'[w] = "release"
\* the line printed in this step is the failure line
ReportsFailure(w) == outcome'[w] = Append(outcome[w], "fail")

\* C17 as stated: a link is reported failed exactly when its fetch met a transport
\* error, a response with a status outside 200..299, or an error writing the
\* file; a response with a 2xx status whose body is written is reported
\* succeeded; no link is fetched or reported twice.
C17_FailedIffNon2xx ==
  [][\A w \in Workers :
       /\ Reports(w) =>
            (ReportsFailure(w) <=>
               \/ err[w].kind = "transport"
               \/ err[w].code # 0 /\ (err[w].code < 200 \/ err[w].code > 299)
               \/ err[w].kind \in {"create", "copy"})
       /\ w \in DOMAIN attempts' => attempts'[w] <= 1
       /\ w \in DOMAIN outcome' => Len(outcome'[w]) <= 1]_vars

\* C17, amended: a link is reported failed exactly when its fetch met a transport
\* error, a response with a status other than 200, or an error writing the
\* file; a response with status 200 whose body is written is reported
\* succeeded; no link is fetched or reported twice.
C17_FailedIffNot200 ==
  [][\A w \in Workers :
       /\ Reports(w) =>
            (ReportsFailure(w) <=>
               \/ err[w].kind = "transport"
               \/ err[w].code # 0 /\ err[w].code # 200
               \/ err[w].kind \in {"create", "copy"})
       /\ w \in DOMAIN attempts' => attempts'[w] <= 1
       /\ w \in DOMAIN outcome' => Len(outcome'[w]) <= 1]_vars

\* a worker is about to report a response with status 204, after one fetch, while
\* another link has been reported succeeded and a third failed
C17_Witness ==
  \E w \in Workers :
    /\ wpc[w] = "report"
    /\ err[w] = [kind |-> "status", code |-> 204]
    /\ attempts[w] = 1
    /\ \E v \in Workers : outcome[v] = <<"ok">>
    /\ \E v \in Workers : outcome[v] = <<"fail">>

\* C18: the mutex is held only inside getUniqueFilename and inside the report
\* of an outcome: at most one worker is inside an allocation, the holder of the
\* mutex is there or in its report, and a worker whose fetch is in progress
\* never holds it, so a worker waiting for the mutex never waits for a fetch.
C18_MutexScope ==
  /\ Cardinality({w \in Workers : wpc[w] = "alloc"}) <= 1
  /\ Cardinality({w \in Workers : wpc[w] \in {"alloc", "report"}}) <= 1
  /\ \A w \in Workers : wpc[w] \in {"alloc", "report"} <=> mu = w
  /\ \A w \in Workers : wpc[w] = "download" => mu # w
  /\ \A w \in Workers :
       (wpc[w] \in {"lockAlloc", "lockReport"} /\ \A v \in Workers : wpc[v] \notin {"alloc", "report"})
         => mu = 0

\* one worker allocates its name while the fetch of another is in progress
C18_Witness ==
  \E v \in Workers, w \in Workers :
    /\ wpc[v] = "download"
    /\ wpc[w] = "alloc"
    /\ mu = w

\* C19: the list extractLinks returns follows the order of the anchors of the
\* page: every link is the target of an anchor, link i comes before link j
\* exactly when the first anchor of i's URL comes before the first anchor of
\* j's URL, and the printed listing gives the links the numbers 1, 2, ... in
\* that order.
C19_DocumentOrder ==
  /\ mainPc = "list" =>
       /\ \A k \in 1..Len(links) : \E i \in Resolved : Target(i) = links[k].URL
       /\ \A i \in 1..Len(links), j \in 1..Len(links) :
            i < j <=> FirstAnchor(links[i].URL) < FirstAnchor(links[j].URL)
       /\ (doc = DocOrder /\ config.Include = <<>>) =>
            LinkURLs = <<<<"h","t","t","p",":","/","/","h","/","d","/","b",".","p","d","f">>, <<"h","t","t","p",":","/","/","h","/","d","/","a",".","p","d","f">>, <<"h","t","t","p",":","/","/","h","/","d","/","d",".","p","d","f">>>>
  /\ listing # <<>> =>
       /\ Len(listing) = Len(links)
       /\ \A k \in 1..Len(links) :
            listing[k] = [No |-> k, Name |-> links[k].Name, URL |-> links[k].URL]

\* the page of DocOrder was listed: three links, the third with the number 3
C19_Witness ==
  /\ doc = DocOrder
  /\ mainPc = "exited"
  /\ Len(listing) = 3
  /\ listing[1].No = 1
  /\ listing[3].No = 3
  /\ listing[1].URL = <<"h","t","t","p",":","/","/","h","/","d","/","b",".","p","d","f">>

\* C20: the k-th request of a run for a name gets the name itself when k = 1 and
\* no file has it; otherwise it gets stem_n+ext for the smallest n >= k such that
\* no file of the directory has that name when the request is served, and such
\* an n is found at most as many steps past k as the directory has files.
C20_NumberedSearch ==
  [][\A w \in Workers :
       (wpc[w] = "alloc" /\ wpc'[w] = "download") =>
         LET name == links[w].Name
             k    == (IF name \in DOMAIN usedNames THEN usedNames[name] ELSE 0) + 1
         IN /\ usedNames'[name] = k
            /\ IF k = 1 /\ name \notin files
                 THEN filename'[w] = name
                 ELSE \E n \in k..(k + Cardinality(files)) :
                        /\ filename'[w] = TrimSuffix(name, Ext(name)) \o <<"_">> \o Itoa(n) \o Ext(name)
                        /\ filename'[w] \notin files
                        /\ \A j \in k..(n - 1) : NumberedName(name, j) \in files]_vars

\* the second request for R.pdf found R_2.pdf in the directory and got R_3.pdf
C20_Witness ==
  \E w \in Workers :
    /\ wpc[w] = "download"
    /\ links[w].Name = RPdf
    /\ usedNames[RPdf] = 2
    /\ NumberedName(RPdf, 2) \in dir0
    /\ filename[w] = NumberedName(RPdf, 3)

====
